---- MODULE Spec2Model ----
(***************************************************************************)
(* bidi-tee: the capture tool (bidi-tee.cc) and the replay tool            *)
(* (bidi-tee-print.cc), joined by the binary log of BlockHeader records.   *)
(*                                                                         *)
(* Capture is modelled as the parent process stepping through main()'s     *)
(* select loop, interleaved with the child, the writer of the parent's     *)
(* stdin and the kernel's delivery of SIGCHLD.  File descriptors are named *)
(* by the channel they belong to (0 stdin, 1 stdout, 2 stderr).            *)
(***************************************************************************)
EXTENDS Integers, Sequences, FiniteSets, TLC

(* ------------------------------ bounds --------------------------------- *)

\* Records of a log file given to replay.
MaxFrames == 2
\* Bytes that may be written, on all channels together, during one run.
MaxBytes == 2
\* sizeof(copy_buf) of bidi-tee.cc, scaled down so that one read can return
\* less than what the pipe holds.
CopyBufSize == 1
\* Number of I/O faults in one run: a read() that fails, or a write to the
\* log that does not transfer every byte.
MaxFaults == 1
\* Largest value the monotonic clock reaches in a run whose clock advances.
MaxTime == 1
\* The capacity of a pipe, in bytes.
PipeCap == 1

(* ------------------------- program constants --------------------------- *)

\* 2^16: block_size is a 16 bit field.
BlockSizeMod == 65536
\* 2^4: channel is a 4 bit field.
ChannelMod == 16
\* sizeof(BlockHeader)
HeaderSize == 16
\* The channel of the terminal record.
ExitChannel == 15
\* Status returned when the terminal write fails.
WriteFailStatus == 120
\* EXIT_SUCCESS and EXIT_FAILURE
EXIT_SUCCESS == 0
EXIT_FAILURE == 1
\* Nanoseconds per millisecond and per second, as the prefixes divide.
NsPerMs == 1000000
NsPerSec == 1000000000
\* '\n', '\r', '\t' and ' '
NL == 10
CR == 13
TAB == 9
SPACE == 32
\* sizeof(copy_buf) of bidi-tee-print.cc
ReplayBufSize == 65535

\* The bytes of a channel's stream are told apart by their position in it,
\* so that a lost, repeated or reordered byte shows.
NextByte(stream) == Len(stream) + 1
Channels == {0, 1, 2}

\* Wait statuses of the child, as waitpid() reports them: exit(3), and death
\* by SIGKILL (signal 9, no core).
ExitedWith(n) == n * 256
KilledBy(s) == s
ChildStatuses == {ExitedWith(3), KilledBy(9)}

VARIABLES
  pc,               \* where the parent is in main()
  sigchild_called,  \* the flag set by sigchld_handler
  closed,           \* closed[c]: header_.channel_closed of copier c
  rd_fds,           \* the fd_set, as the set of channels whose read fd is in it
  timestamp,        \* the timestamp of the current wake-up
  wstatus,          \* what waitpid stored
  exit_status,      \* what main returned (-1: still running)
  exitWrite,        \* how the write of the terminal record ended ("none" yet)
  log,              \* the records written to tee_fd, in file order
  src,              \* src[c]: the pipe (or stdin) copier c reads from
  sent,             \* sent[c]: every byte ever written into src[c]
  fwd,              \* fwd[c]: the bytes copier c forwarded to its write_fd_
  fwdCloses,        \* fwdCloses[c]: number of close(write_fd_) calls of copier c
  sawEof,           \* sawEof[c]: some pump of copier c saw read() <= 0
  child,            \* "running", "zombie" (exited, not waited for) or "reaped"
  childStatus,      \* the wait status the child ended with
  sigPending,       \* SIGCHLD was generated and is not delivered yet
  faults,           \* I/O faults so far
  now,              \* the last reading of the monotonic clock
  stdin_pipe,       \* the bytes in the child's stdin pipe the child has not
                    \* read yet, as their number
  childWrite,       \* the pipe (1 or 2) the child is blocked writing to, or -1
  limits,           \* what the run's environment may do: limits.faults I/O
                    \* faults on reads and log writes, limits.fwd failures of
                    \* forwarding writes, a clock that advances up to
                    \* limits.time, limits.bytes bytes of input and output,
                    \* and pipes that hold limits.pipe bytes (0: more than
                    \* the run ever writes)
  rfile,            \* replay: the log file that is read
  ropts,            \* replay: the options of the command line
  rp,               \* replay: the state of main() of bidi-tee-print.cc
  shadow            \* replay: the same run over the file without the records
                    \* of channels that are not selected

cvars == <<pc, sigchild_called, closed, rd_fds, timestamp, wstatus,
           exit_status, log, src, sent, fwd, fwdCloses, sawEof, child,
           childStatus, sigPending, faults, now, limits, exitWrite,
           stdin_pipe, childWrite>>
rvars == <<rfile, ropts, rp, shadow>>
vars == <<cvars, rvars>>

\* What no step of the capture tool, the child or the kernel changes.
env == <<limits, rvars>>
\* What only the terminal write changes.
fin == <<exit_status, exitWrite>>

(* --------------------------- helper operators -------------------------- *)

Min(a, b) == IF a < b THEN a ELSE b

Take(s, n) == SubSeq(s, 1, Min(n, Len(s)))
Drop(s, n) == SubSeq(s, Min(n, Len(s)) + 1, Len(s))

\* WEXITSTATUS: bits 8..15 of the wait status.
WEXITSTATUS(w) == (w \div 256) % 256
\* WIFEXITED: the low seven bits are zero.
WIFEXITED(w) == (w % 128) = 0
\* WTERMSIG: the low seven bits.
WTERMSIG(w) == w % 128

\* A BlockHeader followed by its payload.  complete is FALSE for a record
\* that a short write cut off.
Record(ts, ch, cl, payload, code, complete) ==
  [timestamp_ns |-> ts,
   channel |-> ch % ChannelMod,
   channel_closed |-> cl,
   block_size |-> Len(payload) % BlockSizeMod,
   exit_code |-> code,
   payload |-> payload,
   complete |-> complete]

\* ChannelCopier::valid
valid(c) == ~closed[c]

\* AddToFdset without its FD_CLR branch: the fd is set whatever valid() says.
AddToFdset_NoClear(c, s) == s \cup {c}

\* ChannelCopier::AddToFdset applied to an fd_set s.
AddToFdset(c, s) == IF valid(c) THEN s \cup {c} ELSE s \ {c}

\* What select() reports as readable: data is buffered, or the write side is
\* closed (read returns 0).
Readable(c) == Len(src[c].buf) > 0 \/ src[c].wclosed

(* ------------------------------- capture ------------------------------- *)

CaptureInit ==
  /\ pc = "loop_cond"
  /\ sigchild_called = FALSE
  /\ closed = [c \in Channels |-> FALSE]
  /\ rd_fds = {}
  /\ timestamp = 0
  /\ wstatus = 0
  /\ exit_status = -1
  /\ exitWrite = "none"
  /\ log = <<>>
  /\ src = [c \in Channels |-> [buf |-> <<>>, wclosed |-> FALSE]]
  /\ sent = [c \in Channels |-> <<>>]
  /\ fwd = [c \in Channels |-> <<>>]
  /\ fwdCloses = [c \in Channels |-> 0]
  /\ sawEof = [c \in Channels |-> FALSE]
  /\ child = "running"
  /\ childStatus = 0
  /\ sigPending = FALSE
  /\ faults = 0
  /\ now = 0
  /\ stdin_pipe = 0
  /\ childWrite = -1

(* The writer of the parent's stdin, and the child. *)

BytesSent == Len(sent[0]) + Len(sent[1]) + Len(sent[2])

\* The time read from a clock that can be set back.
GetTimeNanoseconds_Settable == 0..limits.time

\* GetTimeNanoseconds: what the clock may read now.  CLOCK_MONOTONIC never
\* goes back, and the offset added to it is computed once.
GetTimeNanoseconds == now..(IF limits.time > now THEN limits.time ELSE now)

\* Someone writes a byte to the parent's stdin while the child is alive.
StdinWrite ==
  /\ child = "running"
  /\ ~src[0].wclosed
  /\ BytesSent < limits.bytes
  /\ src' = [src EXCEPT ![0].buf = Append(@, NextByte(sent[0]))]
  /\ sent' = [sent EXCEPT ![0] = Append(@, NextByte(sent[0]))]
  /\ UNCHANGED <<pc, sigchild_called, closed, rd_fds, timestamp, wstatus,
                 fin, log, fwd, fwdCloses, sawEof, child, childStatus,
                 sigPending, faults, now, stdin_pipe,
                 childWrite, env>>

\* The parent's stdin reaches end of file.
StdinClose ==
  /\ ~src[0].wclosed
  /\ src' = [src EXCEPT ![0].wclosed = TRUE]
  /\ UNCHANGED <<pc, sigchild_called, closed, rd_fds, timestamp, wstatus,
                 fin, log, sent, fwd, fwdCloses, sawEof, child,
                 childStatus, sigPending, faults, now, stdin_pipe,
                 childWrite, env>>

\* Pipe c has room for one more byte.
HasRoom(c) == limits.pipe = 0 \/ Len(src[c].buf) < limits.pipe

\* The child writes a byte to its stdout (c = 1) or stderr (c = 2).
ChildWrite(c) ==
  /\ child = "running"
  /\ childWrite = -1
  /\ HasRoom(c)
  /\ ~src[c].wclosed
  /\ BytesSent < limits.bytes
  /\ src' = [src EXCEPT ![c].buf = Append(@, NextByte(sent[c]))]
  /\ sent' = [sent EXCEPT ![c] = Append(@, NextByte(sent[c]))]
  /\ UNCHANGED <<pc, sigchild_called, closed, rd_fds, timestamp, wstatus,
                 fin, log, fwd, fwdCloses, sawEof, child, childStatus,
                 sigPending, faults, now, stdin_pipe,
                 childWrite, env>>

\* The child closes its stdout (c = 1) or stderr (c = 2) and keeps running.
ChildClose(c) ==
  /\ child = "running"
  /\ childWrite = -1
  /\ ~src[c].wclosed
  /\ src' = [src EXCEPT ![c].wclosed = TRUE]
  /\ UNCHANGED <<pc, sigchild_called, closed, rd_fds, timestamp, wstatus,
                 fin, log, sent, fwd, fwdCloses, sawEof, child,
                 childStatus, sigPending, faults, now, stdin_pipe,
                 childWrite, env>>

\* The child terminates with wait status w: the kernel closes its pipe ends
\* and then generates SIGCHLD for the parent, which the parent receives
\* some time later.
ChildExit(w) ==
  /\ child = "running"
  /\ childWrite = -1 \/ ~WIFEXITED(w)
  /\ child' = "zombie"
  /\ childStatus' = w
  /\ childWrite' = -1
  /\ src' = [src EXCEPT ![1].wclosed = TRUE, ![2].wclosed = TRUE]
  /\ sigPending' = TRUE
  /\ UNCHANGED <<pc, sigchild_called, closed, rd_fds, timestamp, wstatus,
                 fin, log, sent, fwd, fwdCloses, sawEof, faults, now,
                 stdin_pipe, env>>

\* The child reads a byte from its stdin.
ChildRead ==
  /\ child = "running"
  /\ childWrite = -1
  /\ stdin_pipe > 0
  /\ stdin_pipe' = stdin_pipe - 1
  /\ UNCHANGED <<pc, sigchild_called, closed, rd_fds, timestamp, wstatus,
                 fin, log, src, sent, fwd, fwdCloses, sawEof, child,
                 childStatus, sigPending, faults, now, childWrite, env>>

\* The child calls write() on its stdout or stderr while that pipe is
\* full, and sleeps in the call.
ChildBlock(c) ==
  /\ child = "running"
  /\ childWrite = -1
  /\ ~src[c].wclosed
  /\ ~HasRoom(c)
  /\ BytesSent < limits.bytes
  /\ childWrite' = c
  /\ UNCHANGED <<pc, sigchild_called, closed, rd_fds, timestamp, wstatus,
                 fin, log, src, sent, fwd, fwdCloses, sawEof, child,
                 childStatus, sigPending, faults, now, stdin_pipe, env>>

\* The pipe has room again and the write() the child sleeps in completes.
ChildUnblock ==
  /\ child = "running"
  /\ childWrite # -1
  /\ HasRoom(childWrite)
  /\ src' = [src EXCEPT ![childWrite].buf = Append(@, NextByte(sent[childWrite]))]
  /\ sent' = [sent EXCEPT ![childWrite] = Append(@, NextByte(sent[childWrite]))]
  /\ childWrite' = -1
  /\ UNCHANGED <<pc, sigchild_called, closed, rd_fds, timestamp, wstatus,
                 fin, log, fwd, fwdCloses, sawEof, child, childStatus,
                 sigPending, faults, now, stdin_pipe, env>>

\* sigchld_handler runs.  A select() that is blocked at that moment with
\* none of its fds readable returns -1 (EINTR) and main leaves the loop
\* (line 198); a select() that has readable fds returns them; anywhere else
\* the handler only sets the flag.
sigchld_handler ==
  /\ sigPending
  /\ exit_status = -1
  /\ sigPending' = FALSE
  /\ sigchild_called' = TRUE
  /\ pc' = IF pc = "select" /\ ~\E c \in rd_fds : Readable(c)
             THEN "wait" ELSE pc
  /\ UNCHANGED <<closed, rd_fds, timestamp, wstatus, fin, log,
                 src, sent, fwd, fwdCloses, sawEof, child, childStatus,
                 faults, now, stdin_pipe,
                 childWrite, env>>

(* The parent: main() of bidi-tee.cc from line 191 on. *)

\* The loop condition asking for every copier to be open.
LoopContinues_AllValid ==
  ~sigchild_called /\ (valid(0) /\ valid(1) /\ valid(2))

\* The loop condition of line 191.
LoopContinues ==
  ~sigchild_called /\ (valid(0) \/ valid(1) \/ valid(2))

LoopCond ==
  /\ pc = "loop_cond"
  /\ pc' = IF LoopContinues THEN "fdset" ELSE "wait"
  /\ UNCHANGED <<sigchild_called, closed, rd_fds, timestamp, wstatus,
                 fin, log, src, sent, fwd, fwdCloses, sawEof, child,
                 childStatus, sigPending, faults, now, stdin_pipe,
                 childWrite, env>>

\* Lines 193-195: every copier adds or removes its read fd.
FdsetAfterAdd == AddToFdset(2, AddToFdset(1, AddToFdset(0, rd_fds)))

\* Lines 193-197: the fd_set is rebuilt and select() is entered.
EnterSelect ==
  /\ pc = "fdset"
  /\ rd_fds' = FdsetAfterAdd
  /\ pc' = "select"
  /\ UNCHANGED <<sigchild_called, closed, timestamp, wstatus,
                 fin, log, src, sent, fwd, fwdCloses, sawEof, child,
                 childStatus, sigPending, faults, now, stdin_pipe,
                 childWrite, env>>

\* Lines 197-200: select() returns the readable fds; one timestamp is taken.
SelectReturn ==
  /\ pc = "select"
  /\ \E c \in rd_fds : Readable(c)
  /\ rd_fds' = {c \in rd_fds : Readable(c)}
  /\ \E t \in GetTimeNanoseconds : now' = t /\ timestamp' = t
  /\ pc' = "pump"
  /\ UNCHANGED <<sigchild_called, closed, wstatus, fin, log, src,
                 sent, fwd, fwdCloses, sawEof, child, childStatus, sigPending,
                 faults, stdin_pipe,
                 childWrite, env>>

\* The state a pump works on.
PumpState ==
  [src |-> src, fwd |-> fwd, fwdCloses |-> fwdCloses, closed |-> closed,
   sawEof |-> sawEof, log |-> log, faults |-> faults,
   stdin_pipe |-> stdin_pipe]

\* What read(read_fd_, scratch, size_available) may return for copier c:
\* the buffered bytes up to the buffer size, 0 at end of file, or -1.
ReadResults(st, c) ==
  {Min(Len(st.src[c].buf), CopyBufSize)}
    \cup (IF st.faults < limits.faults THEN {-1} ELSE {})

\* block_[1].iov_len of line 84.
IovLen(r) == IF r > 0 THEN r ELSE 0

\* input_closed computed as (r < 0): end of file is not taken as a close.
InputClosed_ErrorOnly(r) == r < 0

\* input_closed of line 85.
InputClosed(r) == r <= 0

\* reliable_write to copier c's write_fd_, as the set of what it may have
\* written when it returns: all of data, or the bytes that write() took
\* before a write() failed.  The child's stdin pipe has no reader once the
\* child is gone, and the first write fails (EPIPE).  While that pipe has no
\* room for data and the child lives write() sleeps: reliable_write does not
\* return, and the set is empty.
reliable_write(st, c, data) ==
  IF c = 0 /\ child # "running" THEN {<<>>}
  ELSE IF c = 0 /\ limits.pipe > 0
            /\ st.stdin_pipe + Len(data) > limits.pipe THEN {}
  ELSE {data}
         \cup (IF st.faults < limits.fwd
                THEN {Take(data, k) : k \in 0..(Len(data) - 1)} ELSE {})

\* How the writev() to the log may end: every byte, or fewer.
WriteOutcomes(st) ==
  {"full"} \cup (IF st.faults < limits.faults THEN {"short"} ELSE {})

\* ChannelCopier::CopyUsingBuffer of copier c at wake-up time ts, read()
\* returning r, reliable_write having written the bytes forwarded and the
\* writev() ending as outcome says.  Its boolean result is dropped by the
\* caller (line 203).
CopyUsingBuffer(st, c, ts, r, forwarded, outcome) ==
  LET n == IovLen(r)
      scratch == Take(st.src[c].buf, n)
      input_closed == InputClosed(r)
  IN [src |-> [st.src EXCEPT ![c].buf = Drop(@, n)],
      fwd |-> IF input_closed THEN st.fwd
              ELSE [st.fwd EXCEPT ![c] = @ \o forwarded],
      stdin_pipe |-> IF input_closed \/ c # 0 \/ child # "running"
                       THEN st.stdin_pipe
                       ELSE st.stdin_pipe + Len(forwarded),
      fwdCloses |-> IF input_closed THEN [st.fwdCloses EXCEPT ![c] = @ + 1]
                    ELSE st.fwdCloses,
      closed |-> [st.closed EXCEPT ![c] = input_closed],
      sawEof |-> [st.sawEof EXCEPT ![c] = @ \/ input_closed],
      log |-> Append(st.log, Record(ts, c, input_closed, scratch, 0,
                                    outcome = "full")),
      faults |-> st.faults + (IF r < 0 THEN 1 ELSE 0)
                           + (IF outcome = "full" THEN 0 ELSE 1)
                           + (IF ~input_closed /\ Len(forwarded) < n
                                   /\ ~(c = 0 /\ child # "running")
                                THEN 1 ELSE 0)]

\* What the forwarding of a read result may have written (nothing is
\* forwarded when the input is closed).
Forwarded(st, c, r) ==
  IF InputClosed(r) THEN {<<>>}
  ELSE reliable_write(st, c, Take(st.src[c].buf, IovLen(r)))

\* The pumps of one copier: every way its read, its forwarding and its log
\* write may end within the fault budget.  No way at all while the
\* forwarding write sleeps.
PumpOne(st, c, ts) ==
  {t \in UNION {{CopyUsingBuffer(st, c, ts, r, forwarded, outcome) :
                   forwarded \in Forwarded(st, c, r),
                   outcome \in WriteOutcomes(st)} :
                r \in ReadResults(st, c)} :
     t.faults <= limits.faults + limits.fwd}

\* Lines 201-205: the copiers are visited in the order 0, 1, 2 from index i
\* on, and those whose fd is in ready are pumped.  The set of states the
\* loop can end in.
RECURSIVE PumpLoop(_, _, _, _)
PumpLoop(st, i, ready, ts) ==
  IF i > 2 THEN {st}
  ELSE IF i \notin ready THEN PumpLoop(st, i + 1, ready, ts)
  ELSE UNION {PumpLoop(t, i + 1, ready, ts) : t \in PumpOne(st, i, ts)}

\* Lines 201-205, then back to the loop condition.
Pump ==
  /\ pc = "pump"
  /\ \E st \in PumpLoop(PumpState, 0, rd_fds, timestamp) :
       /\ src' = st.src
       /\ fwd' = st.fwd
       /\ fwdCloses' = st.fwdCloses
       /\ closed' = st.closed
       /\ sawEof' = st.sawEof
       /\ log' = st.log
       /\ faults' = st.faults
       /\ stdin_pipe' = st.stdin_pipe
  /\ pc' = "loop_cond"
  /\ UNCHANGED <<sigchild_called, rd_fds, timestamp, wstatus, fin,
                 sent, child, childStatus, sigPending, now, childWrite,
                 env>>

\* Lines 209-210: waitpid() returns once the child has terminated.
WaitPid ==
  /\ pc = "wait"
  /\ child = "zombie"
  /\ wstatus' = childStatus
  /\ child' = "reaped"
  /\ pc' = "write_exit"
  /\ UNCHANGED <<sigchild_called, closed, rd_fds, timestamp, fin,
                 log, src, sent, fwd, fwdCloses, sawEof, childStatus,
                 sigPending, faults, now, stdin_pipe,
                 childWrite, env>>

\* The terminal record built without clearing the header first, its
\* channel_closed bit left set.
ExitBlock_ClosedSet(ts, w) ==
  Record(ts, ExitChannel, TRUE, <<>>, WEXITSTATUS(w), TRUE)

\* Lines 211-214: the terminal record.
ExitBlock(ts, w) == Record(ts, ExitChannel, FALSE, <<>>, WEXITSTATUS(w), TRUE)

\* How write(tee_fd, &exit_block, 16) may end: all 16 bytes, fewer, or -1.
ExitWriteOutcomes ==
  {"full"} \cup (IF faults < limits.faults THEN {"short", "error"} ELSE {})

\* Lines 215-220: what main returns after the terminal write.
MainReturn(exit_block, outcome) ==
  IF outcome = "error" THEN WriteFailStatus ELSE exit_block.exit_code

\* Lines 211-220: the terminal record is written and main returns.
WriteExit ==
  /\ pc = "write_exit"
  /\ \E t \in GetTimeNanoseconds, outcome \in ExitWriteOutcomes :
       LET exit_block == ExitBlock(t, wstatus)
       IN /\ now' = t
          /\ log' = IF outcome = "full" THEN Append(log, exit_block)
                    ELSE IF outcome = "short"
                      THEN Append(log, [exit_block EXCEPT !.complete = FALSE])
                      ELSE log
          /\ faults' = IF outcome = "full" THEN faults ELSE faults + 1
          /\ exitWrite' = outcome
          /\ exit_status' = MainReturn(exit_block, outcome)
  /\ pc' = "done"
  /\ UNCHANGED <<sigchild_called, closed, rd_fds, timestamp, wstatus, src,
                 sent, fwd, fwdCloses, sawEof, child, childStatus, sigPending,
                 stdin_pipe,
                 childWrite, env>>

ParentStep ==
  \/ LoopCond
  \/ EnterSelect
  \/ SelectReturn
  \/ Pump
  \/ WaitPid
  \/ WriteExit

Environment ==
  \/ StdinWrite
  \/ StdinClose
  \/ \E c \in {1, 2} : ChildWrite(c)
  \/ \E c \in {1, 2} : ChildClose(c)
  \/ \E w \in ChildStatuses : ChildExit(w)

\* What the child does with pipes of bounded capacity.
PipeSteps ==
  \/ ChildRead
  \/ \E c \in {1, 2} : ChildBlock(c)
  \/ ChildUnblock

(* ------------------------------- replay -------------------------------- *)

\* A record of the file: the header fields, the number of header bytes the
\* file holds of it (16 unless the file ends inside the header) and the
\* payload bytes the file holds after it (fewer than block_size when the
\* file ends inside the payload).
FileRecord(ts, ch, cl, payload, code) ==
  [timestamp_ns |-> ts, channel |-> ch, channel_closed |-> cl,
   block_size |-> Len(payload), exit_code |-> code, payload |-> payload,
   hdr_bytes |-> HeaderSize]

\* The timestamps, payloads and channels of the files replay is run on.
RTimes == {1000, 2001500}
RPayloads == {<<65>>, <<66, NL>>}
RChannels == {0, 1}

\* The records of those files: data records, closing records and terminal
\* records.
RRecords ==
  {FileRecord(ts, ch, FALSE, pl, 0) :
     ts \in RTimes, ch \in RChannels, pl \in RPayloads}
  \cup {FileRecord(ts, ch, TRUE, <<>>, 0) : ts \in RTimes, ch \in RChannels}
  \cup {FileRecord(ts, ExitChannel, FALSE, <<>>, 3) : ts \in RTimes}

\* The well formed files of up to MaxFrames records.
RWholeFiles == UNION {[1..n -> RRecords] : n \in 0..MaxFrames}

\* The same file cut off inside the payload of its last record.
PayloadCuts(f) ==
  IF f = <<>> THEN {}
  ELSE {[f EXCEPT ![Len(f)].payload = SubSeq(@, 1, k)] :
          k \in 0..(f[Len(f)].block_size - 1)}

\* The file followed by the first k bytes of one more header.
HeaderCuts(f) ==
  {Append(f, [FileRecord(1000, 0, FALSE, <<>>, 0) EXCEPT !.hdr_bytes = k]) :
     k \in {1, HeaderSize - 1}}

RFiles ==
  RWholeFiles \cup UNION {PayloadCuts(f) \cup HeaderCuts(f) : f \in RWholeFiles}

\* The command lines: -s, -ts/-td/-ta, -c, -e, -n.  char_signed is not an
\* option but the build: whether plain char is a signed type.  The payload
\* bytes of these runs are below 128, where it makes no difference.
ROptions ==
  [selected : {{0, 1, 2, ExitChannel}, {1, ExitChannel}},
   print_timestamp : {"kNone", "kStartFile", "kDelta", "kAbsolute"},
   colored : BOOLEAN,
   ascii_escape : BOOLEAN,
   ascii_escape_break_after_newline : BOOLEAN,
   char_signed : {TRUE}]

\* C's division and remainder, which round towards zero.
CDiv(a, b) == IF a >= 0 THEN a \div b ELSE -((-a) \div b)
CRem(a, b) == a - b * CDiv(a, b)

\* A byte of the file as the value of the const char c of line 50: negative
\* from 0x80 on where char is signed.
AsChar(opts, b) == IF opts.char_signed /\ b >= 128 THEN b - 256 ELSE b

\* The hexadecimal digits "%02x" prints for a char argument: those of the
\* int it is promoted to, read as unsigned int, at least two of them.  A
\* negative c gives the eight digits of 2^32 + c: six f and the two digits
\* of c + 256.
HexArg(c) ==
  LET low == IF c < 0 THEN c + 256 ELSE c
  IN (IF c < 0 THEN <<15, 15, 15, 15, 15, 15>> ELSE <<>>)
       \o <<low \div 16, low % 16>>

\* The bytes of content as fwrite puts them out, unchanged.
Raw(content) == [i \in 1..Len(content) |-> [byte |-> content[i]]]

\* PrintCEscaped, one byte.
PrintCEscapedByte(opts, b) ==
  IF b = NL
    THEN IF opts.ascii_escape_break_after_newline
           THEN <<[esc |-> "n"], [byte |-> NL]>>
           ELSE <<[esc |-> "n"]>>
  ELSE IF b = CR THEN <<[esc |-> "r"]>>
  ELSE IF b = TAB THEN <<[esc |-> "t"]>>
  ELSE IF AsChar(opts, b) < SPACE
    THEN <<[esc |-> "x", hex |-> HexArg(AsChar(opts, b))]>>
  ELSE <<[byte |-> b]>>

RECURSIVE PrintCEscaped(_, _)
PrintCEscaped(opts, content) ==
  IF content = <<>> THEN <<>>
  ELSE PrintCEscapedByte(opts, Head(content))
         \o PrintCEscaped(opts, Tail(content))

\* PrintContent: what it writes for a payload of the given channel.  The
\* colour of channel 2 is the empty string.
PrintContent(opts, channel, content) ==
  (IF opts.colored /\ channel < 2 THEN <<[color |-> channel]>> ELSE <<>>)
  \o (IF opts.ascii_escape THEN PrintCEscaped(opts, content)
      ELSE Raw(content))
  \o (IF opts.colored THEN <<[color |-> "reset"]>> ELSE <<>>)

\* PrintChannel
PrintChannel(channel) ==
  IF channel = 0 THEN "->"
  ELSE IF channel = 1 THEN "<-"
  ELSE IF channel = 2 THEN "<="
  ELSE IF channel = ExitChannel THEN "EXIT"
  ELSE "??"

\* The state of main() before the first fread.
ReplayStart ==
  [pos |-> 1, out |-> <<>>, start_timestamp |-> -1,
   last_was_newline |-> TRUE, delta_timestamp_prefix |-> " ",
   exit_code |-> EXIT_SUCCESS, reported |-> FALSE, pc |-> "loop",
   payload_read |-> 0, nl_reads |-> {}]

\* Line 182: fread(&header, sizeof(header), 1, instream) yields a header
\* when the file holds all 16 bytes of one.
HeaderRead(f, pos) == pos <= Len(f) /\ f[pos].hdr_bytes = HeaderSize

\* The payload read taken to fail only when it yields no byte at all, as
\* fread(copy_buf, 1, block_size, instream) == 0 would.
PayloadReadFails_NoByte(header) ==
  header.block_size > 0 /\ Len(header.payload) = 0

\* Lines 186-187: the payload is read unless block_size is 0, and the read
\* fails when the file holds fewer bytes.
PayloadReadFails(header) ==
  header.block_size > 0 /\ Len(header.payload) < header.block_size

\* The prefix with the frame's own timestamp printed in since-start mode,
\* the subtraction of start_timestamp left out.
TimestampPrefix_NoRebase(opts, st, header, start) ==
  LET channel_text == PrintChannel(header.channel)
  IN IF opts.print_timestamp = "kNone" THEN <<>>
     ELSE <<[prefix |-> IF opts.print_timestamp = "kStartFile" THEN "since"
                        ELSE IF opts.print_timestamp = "kDelta" THEN "delta"
                        ELSE "abs",
             sign |-> IF opts.print_timestamp = "kDelta"
                        THEN st.delta_timestamp_prefix ELSE "",
             ms |-> CDiv(header.timestamp_ns, NsPerMs),
             frac |-> CRem(header.timestamp_ns, NsPerMs),
             text |-> channel_text]>>

\* Lines 202-226: the timestamp prefix.
TimestampPrefix(opts, st, header, start) ==
  LET since_start == header.timestamp_ns - start
      channel_text == PrintChannel(header.channel)
  IN IF opts.print_timestamp = "kStartFile"
       THEN <<[prefix |-> "since", sign |-> "",
               ms |-> CDiv(since_start, NsPerMs),
               frac |-> CRem(since_start, NsPerMs), text |-> channel_text]>>
     ELSE IF opts.print_timestamp = "kDelta"
       THEN <<[prefix |-> "delta", sign |-> st.delta_timestamp_prefix,
               ms |-> CDiv(since_start, NsPerMs),
               frac |-> CRem(since_start, NsPerMs), text |-> channel_text]>>
     ELSE IF opts.print_timestamp = "kAbsolute"
       THEN <<[prefix |-> "abs", sign |-> "",
               ms |-> CDiv(header.timestamp_ns, NsPerSec),
               frac |-> CRem(header.timestamp_ns, NsPerSec),
               text |-> channel_text]>>
     ELSE <<>>

\* Lines 246-248.  With block_size 0 the byte read is copy_buf[-1], which is
\* not part of the buffer: garbage says whether it happens to be '\n'.
LastWasNewline(opts, header, garbage) ==
  /\ IF header.block_size > 0
       THEN header.payload[header.block_size] = NL
       ELSE garbage
  /\ (~opts.ascii_escape \/ opts.ascii_escape_break_after_newline)

\* The out-of-band line printed without the newline that ends it.
OutOfBandLine_NoNewline(header) ==
  IF header.channel_closed THEN <<[closed |-> header.channel]>>
  ELSE <<[exit |-> header.exit_code]>>

\* Lines 230 and 238: "<channel %u closed>\n" for a record with
\* channel_closed set, "Exit code %d\n" for a record of channel 15.
OutOfBandLine(header) ==
  IF header.channel_closed
    THEN <<[closed |-> header.channel], [byte |-> NL]>>
    ELSE <<[exit |-> header.exit_code], [byte |-> NL]>>

\* Lines 183-248: one turn of the loop body on a header that was read.
\* payload_read is the number of bytes the fread of line 187 put into
\* copy_buf, nl_reads the index of copy_buf that line 247 read in this turn
\* (none when the turn did not get there) with the block_size it goes with.
ReplayRecord(opts, st0, header, garbage) ==
  LET st == [st0 EXCEPT
               !.payload_read =
                  IF header.block_size > 0 THEN Len(header.payload) ELSE 0,
               !.nl_reads = {}]
      start == IF st.start_timestamp < 0 THEN header.timestamp_ns
               ELSE st.start_timestamp
      print_out_of_band == opts.print_timestamp # "kNone"
      out1 == IF opts.print_timestamp # "kNone" /\ ~st.last_was_newline
                THEN Append(st.out, [byte |-> NL]) ELSE st.out
      out2 == out1 \o TimestampPrefix(opts, st, header, start)
      st2 == [st EXCEPT
                !.pos = @ + 1,
                !.out = out2,
                !.start_timestamp =
                   IF opts.print_timestamp = "kDelta"
                     THEN header.timestamp_ns ELSE start,
                !.delta_timestamp_prefix =
                   IF opts.print_timestamp = "kDelta" THEN "+" ELSE @]
  IN IF PayloadReadFails(header)
       THEN [st EXCEPT !.start_timestamp = start,
                       !.exit_code = EXIT_FAILURE,
                       !.reported = TRUE,
                       !.pc = "done"]
     ELSE IF header.channel \notin opts.selected
       THEN [st EXCEPT !.pos = @ + 1, !.start_timestamp = start]
     ELSE IF header.channel_closed
       THEN IF print_out_of_band
              THEN [st2 EXCEPT
                      !.out = @ \o OutOfBandLine(header),
                      !.last_was_newline = TRUE]
              ELSE st2
     ELSE IF header.channel = ExitChannel
       THEN IF print_out_of_band
              THEN [st2 EXCEPT
                      !.out = @ \o OutOfBandLine(header),
                      !.last_was_newline = TRUE]
              ELSE st2
     ELSE [st2 EXCEPT
             !.out = @ \o PrintContent(opts, header.channel, header.payload),
             !.last_was_newline = LastWasNewline(opts, header, garbage),
             !.nl_reads = {[index |-> header.block_size - 1,
                            block_size |-> header.block_size]}]

\* Lines 182 and 250-252: fread yields no header, the loop ends and main
\* returns exit_code.
ReplayEnd(st) == [st EXCEPT !.pc = "done"]

\* The values copy_buf[-1] == '\n' may take where the loop reads it.
Garbage(header) ==
  IF header.block_size = 0 /\ ~header.channel_closed
       /\ header.channel # ExitChannel
    THEN BOOLEAN ELSE {FALSE}

\* The records of f that the run over the selected channels alone is given:
\* all but the whole records of channels that are not selected.
Kept(opts, header) ==
  header.channel \in opts.selected \/ header.hdr_bytes < HeaderSize
    \/ PayloadReadFails(header)

ReplayInit ==
  /\ rfile \in RFiles
  /\ ropts \in ROptions
  /\ rp = ReplayStart
  /\ shadow = ReplayStart

\* One turn of the while loop of line 182 on the next record of the file.
ReplayFrame ==
  /\ rp.pc = "loop"
  /\ HeaderRead(rfile, rp.pos)
  /\ \E garbage \in Garbage(rfile[rp.pos]) :
       /\ rp' = ReplayRecord(ropts, rp, rfile[rp.pos], garbage)
       /\ shadow' = IF Kept(ropts, rfile[rp.pos])
                      THEN ReplayRecord(ropts, shadow, rfile[rp.pos], garbage)
                      ELSE shadow
  /\ UNCHANGED <<rfile, ropts, cvars>>

\* The fread of line 182 yields no header: the file has ended, or it holds
\* fewer than 16 bytes of the next header.
ReplayStop ==
  /\ rp.pc = "loop"
  /\ ~HeaderRead(rfile, rp.pos)
  /\ rp' = ReplayEnd(rp)
  /\ shadow' = ReplayEnd(shadow)
  /\ UNCHANGED <<rfile, ropts, cvars>>

\* While capture is modelled the replay tool does not run.
ReplayIdle ==
  /\ rfile = <<>>
  /\ ropts = [selected |-> {0, 1, 2, ExitChannel}, print_timestamp |-> "kNone",
              colored |-> TRUE, ascii_escape |-> FALSE,
              ascii_escape_break_after_newline |-> TRUE, char_signed |-> TRUE]
  /\ rp = ReplayStart
  /\ shadow = ReplayStart

(* --------------------------- specifications ---------------------------- *)

\* The limits of a run in which capture does not take a step.
NoLimits ==
  [faults |-> 0, time |-> 0, fwd |-> 0, bytes |-> MaxBytes, pipe |-> 0]

\* Runs with I/O faults, under a clock too coarse to advance.
Init ==
  CaptureInit /\ limits = [faults |-> MaxFaults, time |-> 0, fwd |-> 0,
                           bytes |-> MaxBytes, pipe |-> 0] /\ ReplayIdle

\* Runs without I/O faults, under a clock that advances.
TimedInit ==
  CaptureInit /\ limits = [faults |-> 0, time |-> MaxTime, fwd |-> 0,
                           bytes |-> MaxBytes, pipe |-> 0] /\ ReplayIdle

Next == ParentStep \/ Environment \/ sigchld_handler

Spec == Init /\ [][Next]_vars

TimedSpec == TimedInit /\ [][Next]_vars

\* The parent runs whenever it can, and a generated SIGCHLD is delivered.
FairSpec == TimedSpec /\ WF_vars(ParentStep) /\ WF_vars(sigchld_handler)

\* Runs with pipes that hold PipeCap bytes and forwarding writes that may
\* fail, of one byte more than the pipes of one direction hold.
ForwardInit ==
  /\ CaptureInit /\ ReplayIdle
  /\ limits = [faults |-> 0, time |-> 0, fwd |-> MaxFaults,
               bytes |-> MaxBytes + PipeCap, pipe |-> PipeCap]

PipeNext == Next \/ PipeSteps

ForwardSpec == ForwardInit /\ [][PipeNext]_vars

\* The parent runs whenever it can, a generated SIGCHLD is delivered, and the
\* child reads what is in its stdin and completes a write as soon as it can.
FairForwardSpec ==
  /\ ForwardSpec
  /\ WF_vars(ParentStep) /\ WF_vars(sigchld_handler)
  /\ WF_vars(ChildRead) /\ WF_vars(ChildUnblock)

\* The replay tool run on a file, capture standing still.
ReplaySpecInit ==
  CaptureInit /\ limits = NoLimits /\ ReplayInit

ReplayNext == ReplayFrame \/ ReplayStop

ReplaySpec == ReplaySpecInit /\ [][ReplayNext]_vars

\* The payloads the escaped rendering is run on: every byte value alone, and
\* the bytes A, 0x07, B, '\n'.
EscPayloads == {<<b>> : b \in 0..255} \cup {<<65, 7, 66, NL>>}

\* The replay tool run with -e on a file of one data record, built with char
\* signed or unsigned.
EscapeInit ==
  /\ CaptureInit /\ limits = NoLimits
  /\ rfile \in {<<FileRecord(1000, 1, FALSE, pl, 0)>> : pl \in EscPayloads}
  /\ ropts \in [selected : {{0, 1, 2, ExitChannel}},
                 print_timestamp : {"kNone"},
                 colored : {FALSE},
                 ascii_escape : {TRUE},
                 ascii_escape_break_after_newline : BOOLEAN,
                 char_signed : BOOLEAN]
  /\ rp = ReplayStart
  /\ shadow = ReplayStart

EscapeSpec == EscapeInit /\ [][ReplayNext]_vars

\* Records the frame format accepts and capture never writes: data records
\* (channel_closed false, channel not 15) with block_size 0, and records of
\* channel 3; next to them ordinary data and closing records.
AnyRecords ==
  {FileRecord(1000, ch, FALSE, pl, 0) :
     ch \in {1, 3}, pl \in {<<>>, <<65>>, <<66, NL>>}}
  \cup {FileRecord(1000, 1, TRUE, <<>>, 0)}

\* The replay tool run on a file of up to MaxFrames such records.
AnyLogInit ==
  /\ CaptureInit /\ limits = NoLimits
  /\ rfile \in UNION {[1..n -> AnyRecords] : n \in 0..MaxFrames}
  /\ ropts \in [selected : {{0, 1, 2, ExitChannel}, {1, 3}},
                 print_timestamp : {"kNone", "kStartFile"},
                 colored : BOOLEAN,
                 ascii_escape : BOOLEAN,
                 ascii_escape_break_after_newline : {TRUE},
                 char_signed : {TRUE}]
  /\ rp = ReplayStart
  /\ shadow = ReplayStart

AnyLogSpec == AnyLogInit /\ [][ReplayNext]_vars

(* ------------------------ properties of capture ------------------------ *)

RECURSIVE Concat(_)
\* The concatenation of a sequence of sequences.
Concat(ss) == IF ss = <<>> THEN <<>> ELSE Head(ss) \o Concat(Tail(ss))

\* The records of channel c in the log, in file order.
RecordsOf(c) == SelectSeq(log, LAMBDA f : f.channel = c)

\* The payloads of channel c's records, concatenated in file order.
PayloadOf(c) ==
  Concat([i \in 1..Len(RecordsOf(c)) |-> RecordsOf(c)[i].payload])

\* The positions of the log that hold a record of channel c.
PositionsOf(c) == {i \in 1..Len(log) : log[i].channel = c}

\* Some write to the log did not transfer every byte.
LogWriteFailed ==
  \/ \E i \in 1..Len(log) : ~log[i].complete
  \/ exitWrite \in {"short", "error"}

\* main has left the while loop of line 191.
LoopExited == pc \in {"wait", "write_exit", "done"}

\* C1: once capture has finished (no I/O fault having occurred), the payloads
\* of channel c's records, concatenated in log order, are exactly the bytes
\* that were written to channel c.  Stated here for the child's stdout and
\* stderr, the part the claim singles out: no byte the child wrote before it
\* exited is missing from the log.  (For channel 0 the same equation fails
\* whenever input is still unread when the child exits.)
C1_RoundTrip ==
  (pc = "done" /\ faults = 0) =>
    \A c \in {1, 2} : PayloadOf(c) = sent[c]

\* The status a child that ended with wait status w hands to its parent:
\* the argument of exit(), or, for a child a signal killed, 128 plus the
\* signal's number as shells report it; never that of a successful exit.
ChildExitStatus(w) ==
  IF WIFEXITED(w) THEN WEXITSTATUS(w) ELSE 128 + WTERMSIG(w)

\* C2: when capture completes without a log-write failure, the status main
\* returns equals the child's exit status, however the child terminated, and
\* the terminal record carries that same value.
C2_ExitPropagation ==
  (pc = "done" /\ ~LogWriteFailed) =>
    /\ exit_status = ChildExitStatus(childStatus)
    /\ log[Len(log)].exit_code = ChildExitStatus(childStatus)

\* C3 as stated: every run that gets past the loop and returns has exactly
\* one channel 15 record in its log, the last one, with channel_closed false
\* and block_size 0.
C3_ExactlyOneTerminalRecord ==
  pc = "done" =>
    /\ Cardinality(PositionsOf(ExitChannel)) = 1
    /\ log[Len(log)].channel = ExitChannel
    /\ log[Len(log)].complete
    /\ ~log[Len(log)].channel_closed
    /\ log[Len(log)].block_size = 0

\* C3 as amended: the log never holds more than one channel 15 record; one is
\* there only after waitpid() has returned, and then it is the last record,
\* with channel_closed false and block_size 0.  When the terminal write
\* transferred the whole header that record is there in full; when the write
\* failed no channel 15 record is there at all.
C3_TerminalRecord ==
  /\ Cardinality(PositionsOf(ExitChannel)) <= 1
  /\ \A i \in PositionsOf(ExitChannel) :
       /\ i = Len(log)
       /\ child = "reaped"
       /\ pc = "done"
       /\ ~log[i].channel_closed
       /\ log[i].block_size = 0
       /\ log[i].payload = <<>>
  /\ (pc = "done" /\ exitWrite = "full") =>
       \E i \in PositionsOf(ExitChannel) : log[i].complete
  /\ (pc = "done" /\ exitWrite = "error") => PositionsOf(ExitChannel) = {}
  /\ pc = "done" <=> exitWrite # "none"

\* A run that ended with the terminal record written in full after records
\* of the live channels.
C3_Witness ==
  /\ pc = "done"
  /\ exitWrite = "full"
  /\ Len(log) >= 3
  /\ log[Len(log)].channel = ExitChannel

\* C4: once the child has exited and sigchld_handler has run, the loop is
\* eventually left, whatever the parent was doing at that moment and without
\* any channel becoming readable afterwards.
C4_LoopEventuallyExits ==
  (child # "running" /\ sigchild_called) ~> LoopExited

\* C5: a log write that comes up short is fatal: no record is written after
\* the one that was cut off, and main returns the fixed status, not the
\* child's.
C5_LogWriteFailureFatal ==
  /\ \A i \in 1..Len(log) : ~log[i].complete => i = Len(log)
  /\ (pc = "done" /\ LogWriteFailed) => exit_status = WriteFailStatus

\* C9, the state of the log: while every log write has succeeded, each
\* record is a header followed by exactly block_size payload bytes, the
\* size is within the buffer and the 16 bit field, live records belong to
\* the channels 0 to 2, and a record with channel_closed set has no payload.
C9_RecordsWellFormed ==
  ~LogWriteFailed =>
    \A i \in 1..Len(log) :
      /\ log[i].complete
      /\ log[i].block_size = Len(log[i].payload)
      /\ log[i].block_size <= CopyBufSize
      /\ CopyBufSize < BlockSizeMod
      /\ log[i].channel \in Channels \cup {ExitChannel}
      /\ log[i].channel_closed => log[i].block_size = 0
      /\ (log[i].channel \in Channels /\ ~log[i].channel_closed)
           => log[i].block_size > 0

\* The records a step appended to the log.
Appended == SubSeq(log', Len(log) + 1, Len(log'))

\* C9, one run of the pump loop: it appends one record per copier whose fd
\* was set, in the order of the copiers; the record of copier c has channel
\* c, the bytes the read took from the head of c's source as payload, their
\* number as block_size, and channel_closed set exactly when the read took
\* nothing (it returned 0 or failed), which is when the copier closes.
C9_PumpStep ==
  (pc = "pump" /\ pc' = "loop_cond") =>
    /\ SubSeq(log', 1, Len(log)) = log
    /\ Len(Appended) = Cardinality(rd_fds)
    /\ \A k \in 1..Len(Appended) :
         LET f == Appended[k]
             c == f.channel
             taken == Len(src[c].buf) - Len(src'[c].buf)
         IN /\ c \in rd_fds
            /\ Cardinality({d \in rd_fds : d < c}) = k - 1
            /\ f.block_size = taken
            /\ f.payload = SubSeq(src[c].buf, 1, taken)
            /\ src'[c].buf = SubSeq(src[c].buf, taken + 1, Len(src[c].buf))
            /\ f.channel_closed <=> (taken = 0)
            /\ f.channel_closed <=> closed'[c]
            /\ taken <= CopyBufSize

\* C9: the log stays well formed, and every pump appends the record of what
\* its read returned.
C9_LogWellFormed == []C9_RecordsWellFormed /\ [][C9_PumpStep]_vars

\* A finished run whose log holds two data records of one channel, the
\* record that closed it and the terminal record, all written in full.
C9_Witness ==
  /\ pc = "done"
  /\ ~LogWriteFailed
  /\ \E c \in Channels :
       /\ Len(RecordsOf(c)) = 3
       /\ RecordsOf(c)[1].block_size = CopyBufSize
       /\ RecordsOf(c)[3].channel_closed

\* C10: once a pump of copier c has seen read() return 0 or less, c's fd is
\* not in the set select() waits on nor in the one it returns, its forward
\* destination was closed once, and the log holds at most one record of
\* channel c with channel_closed set, which is the last record of channel c.
C10_CloseIsFinal ==
  \A c \in Channels :
    /\ sawEof[c] <=> closed[c]
    /\ (sawEof[c] /\ pc = "select") => c \notin rd_fds
    /\ fwdCloses[c] = (IF sawEof[c] THEN 1 ELSE 0)
    /\ Cardinality({i \in PositionsOf(c) : log[i].channel_closed})
         = (IF sawEof[c] THEN 1 ELSE 0)
    /\ \A i \in PositionsOf(c) :
         log[i].channel_closed => \A j \in PositionsOf(c) : j <= i

\* A copier closed while the loop went on: the parent waits in select() again
\* after channel 1 closed, with records of other channels after the closing
\* record.
C10_Witness ==
  /\ pc = "select"
  /\ sawEof[1]
  /\ \E i \in PositionsOf(1) :
       log[i].channel_closed /\ i < Len(log)

(* ------------------------- properties of replay ------------------------ *)

\* The file ends inside the payload of its last record: the header is whole,
\* block_size is positive and fewer payload bytes follow.
PayloadCut ==
  /\ Len(rfile) > 0
  /\ rfile[Len(rfile)].hdr_bytes = HeaderSize
  /\ rfile[Len(rfile)].block_size > 0
  /\ Len(rfile[Len(rfile)].payload) < rfile[Len(rfile)].block_size

\* The file ends with 1 to 15 bytes of a header.
HeaderCut ==
  /\ Len(rfile) > 0
  /\ rfile[Len(rfile)].hdr_bytes \in 1..(HeaderSize - 1)

\* C6, the end of the run: on a file cut inside its last payload replay has
\* reported an error and returns a status other than 0, having gone through
\* every record before the last.
C6_TruncationReported ==
  (rp.pc = "done" /\ PayloadCut) =>
    /\ rp.exit_code # EXIT_SUCCESS
    /\ rp.reported
    /\ rp.pos = Len(rfile)

\* C6, the turn of the loop that meets the cut record: it writes nothing, so
\* that the output stays what the whole records before it gave, and ends the
\* run with EXIT_FAILURE.
C6_NothingForCutRecord ==
  (rp.pc = "loop" /\ PayloadCut /\ rp.pos = Len(rfile)) =>
    /\ rp'.out = rp.out
    /\ rp'.pc = "done"
    /\ rp'.exit_code = EXIT_FAILURE
    /\ rp'.reported

\* C6: a log whose last record has its payload cut short makes replay report
\* an error and exit non-zero without any output for that record, after the
\* records before it were rendered.
C6_PayloadTruncation ==
  []C6_TruncationReported /\ [][C6_NothingForCutRecord]_vars

\* A run that rendered a record and then met a record with some, but not
\* all, of its payload.
C6_Witness ==
  /\ rp.pc = "done"
  /\ PayloadCut
  /\ Len(rfile[Len(rfile)].payload) > 0
  /\ rp.out # <<>>
  /\ rp.exit_code = EXIT_FAILURE

\* C7: on a file that ends with 1 to 15 bytes of a header replay reports an
\* error and returns a status other than 0; only a read of no header byte at
\* all ends it with success.
C7_HeaderTruncation ==
  (rp.pc = "done" /\ HeaderCut) =>
    /\ rp.exit_code # EXIT_SUCCESS
    /\ rp.reported

\* C8: what replay writes for a file is what it writes for the file without
\* the records of the channels that are not selected.
C8_FilterClosure ==
  (rp.pc = "done" /\ ~PayloadCut /\ ~HeaderCut) => rp.out = shadow.out

\* The timestamp prefixes of an output, in the order they were printed.
IsPrefix(e) == "prefix" \in DOMAIN e
Prefixes(out) == SelectSeq(out, IsPrefix)

\* The number of nanoseconds a prefix shows: its milliseconds and the six
\* digits after the point.
PrefixNs(e) == e.ms * NsPerMs + e.frac

\* No record of the file is of a channel that is not selected.
NoFiltering == \A i \in 1..Len(rfile) : rfile[i].channel \in ropts.selected

\* The timestamps of the file are not negative and do not decrease.
TimesNonDecreasing ==
  \A i \in 1..Len(rfile) :
    /\ rfile[i].timestamp_ns >= 0
    /\ \A j \in 1..i : rfile[j].timestamp_ns <= rfile[i].timestamp_ns

\* C11: in since-start mode with no record filtered out, on a file whose
\* timestamps are not negative and do not decrease, the k-th prefix printed
\* shows the k-th record's timestamp minus the first record's: the first
\* shows 0 and no prefix shows less than the one before it.
C11_SinceStart ==
  (ropts.print_timestamp = "kStartFile" /\ NoFiltering /\ TimesNonDecreasing)
    => LET P == Prefixes(rp.out)
       IN /\ Len(P) <= Len(rfile)
          /\ \A k \in 1..Len(P) :
               /\ P[k].prefix = "since"
               /\ P[k].frac \in 0..(NsPerMs - 1)
               /\ PrefixNs(P[k])
                    = rfile[k].timestamp_ns - rfile[1].timestamp_ns
               /\ k = 1 => (P[k].ms = 0 /\ P[k].frac = 0)
               /\ k > 1 => PrefixNs(P[k - 1]) <= PrefixNs(P[k])

\* A since-start run that printed the prefixes of two records that lie
\* 2.000500 ms apart.
C11_Witness ==
  /\ rp.pc = "done"
  /\ ropts.print_timestamp = "kStartFile"
  /\ NoFiltering /\ TimesNonDecreasing
  /\ Len(Prefixes(rp.out)) = 2
  /\ Prefixes(rp.out)[1].ms = 0 /\ Prefixes(rp.out)[1].frac = 0
  /\ Prefixes(rp.out)[2].ms = 2 /\ Prefixes(rp.out)[2].frac = 500

\* The rendering of byte b with escape mode on, as C12 gives it.
EscapedAs(b, break_after_newline) ==
  IF b = CR THEN <<[esc |-> "r"]>>
  ELSE IF b = TAB THEN <<[esc |-> "t"]>>
  ELSE IF b = NL
    THEN <<[esc |-> "n"]>>
           \o (IF break_after_newline THEN <<[byte |-> NL]>> ELSE <<>>)
  ELSE IF b < SPACE THEN <<[esc |-> "x", hex |-> <<b \div 16, b % 16>>]>>
  ELSE <<[byte |-> b]>>

\* C12: with escape mode on, what replay writes for a payload is, byte by
\* byte, \r, \t, \n (with a real line break after it exactly when
\* newline-break is on), \x and two hex digits for the other bytes below
\* 0x20, and the byte itself from 0x20 on, 0x80 to 0xff included.
C12_EscapedRendering ==
  (rp.pc = "done" /\ ropts.ascii_escape /\ ~ropts.colored
     /\ ropts.print_timestamp = "kNone" /\ Len(rfile) = 1
     /\ ~PayloadCut /\ ~HeaderCut /\ ~rfile[1].channel_closed
     /\ rfile[1].channel \in ropts.selected \ {ExitChannel})
    => rp.out =
         Concat([i \in 1..Len(rfile[1].payload) |->
                   EscapedAs(rfile[1].payload[i],
                             ropts.ascii_escape_break_after_newline)])

\* The turn of the loop about to run takes a whole record of a selected
\* channel that is the terminal marker or has channel_closed set.
OutOfBandTurn ==
  /\ rp.pc = "loop"
  /\ HeaderRead(rfile, rp.pos)
  /\ ~PayloadReadFails(rfile[rp.pos])
  /\ rfile[rp.pos].channel \in ropts.selected
  /\ rfile[rp.pos].channel = ExitChannel \/ rfile[rp.pos].channel_closed

\* What a step appended to the output.
Emitted == SubSeq(rp'.out, Len(rp.out) + 1, Len(rp'.out))

\* The same without the newline that first ends an unfinished line.
EmittedLine ==
  IF ropts.print_timestamp # "kNone" /\ ~rp.last_was_newline
       /\ Len(Emitted) > 0 /\ Emitted[1] = [byte |-> NL]
    THEN Tail(Emitted) ELSE Emitted

\* The step emitted no payload byte, escape or colour sequence, and ended
\* what it emitted with the only newline in it.
NoPayloadOneLine ==
  /\ \A i \in 1..Len(EmittedLine) :
       /\ "esc" \notin DOMAIN EmittedLine[i]
       /\ "color" \notin DOMAIN EmittedLine[i]
       /\ "byte" \in DOMAIN EmittedLine[i] => i = Len(EmittedLine)
  /\ ropts.print_timestamp = "kNone" => Emitted = <<>>
  /\ ropts.print_timestamp # "kNone" =>
       /\ Len(EmittedLine) > 0
       /\ EmittedLine[Len(EmittedLine)] = [byte |-> NL]

\* C13 as stated: for a selected record that is the terminal marker or has
\* channel_closed set replay emits no payload bytes or colours, nothing at
\* all without a timestamp mode and exactly one line with one; for a closed
\* record of channel 1 in since-start mode that line is
\* "<channel 1 closed>" and nothing else.
C13_OutOfBandLineOnly ==
  [][OutOfBandTurn =>
       /\ NoPayloadOneLine
       /\ (ropts.print_timestamp = "kStartFile"
              /\ rfile[rp.pos].channel = 1 /\ rfile[rp.pos].channel_closed)
            => EmittedLine = <<[closed |-> 1], [byte |-> NL]>>]_vars

\* C13 as amended: the one line is the timestamp prefix of the record, with
\* the channel's text, followed by "<channel N closed>" for a record with
\* channel_closed set and by "Exit code N" for any other terminal marker;
\* it follows the newline that ends an unfinished line, if there is one.
C13_OutOfBand ==
  [][OutOfBandTurn =>
       /\ NoPayloadOneLine
       /\ ropts.print_timestamp # "kNone" =>
            /\ Len(EmittedLine) = 3
            /\ Len(Emitted) = (IF rp.last_was_newline THEN 3 ELSE 4)
            /\ IsPrefix(EmittedLine[1])
            /\ EmittedLine[1].text
                 = (IF rfile[rp.pos].channel = ExitChannel THEN "EXIT"
                    ELSE IF rfile[rp.pos].channel = 0 THEN "->" ELSE "<-")
            /\ EmittedLine[2]
                 = (IF rfile[rp.pos].channel_closed
                      THEN [closed |-> rfile[rp.pos].channel]
                      ELSE [exit |-> rfile[rp.pos].exit_code])
            /\ rp'.last_was_newline]_vars

\* A since-start run that printed the line of a closed record of channel 1
\* and then the line of the terminal marker.
C13_Witness ==
  /\ rp.pc = "done"
  /\ ropts.print_timestamp = "kStartFile"
  /\ Len(rfile) = 2
  /\ rfile[1].channel = 1 /\ rfile[1].channel_closed
  /\ rfile[2].channel = ExitChannel
  /\ \E i \in 1..Len(rp.out) : rp.out[i] = [closed |-> 1]
  /\ \E i \in 1..Len(rp.out) : rp.out[i] = [exit |-> 3]

\* The parent is inside a pump that cannot go on: the forwarding write to
\* the child's stdin sleeps until the child reads.
ParentBlocked ==
  pc = "pump" /\ PumpLoop(PumpState, 0, rd_fds, timestamp) = {}

\* C14: the parent sleeps only in select() and in waitpid(), never in a
\* pump; so no state is reached in which the parent sleeps forwarding
\* channel 0 bytes to the child while the child sleeps in a write to its
\* stdout or stderr pipe, full and not drained by the parent.
C14_NoForwardDeadlock ==
  ~(ParentBlocked /\ child = "running" /\ childWrite \in {1, 2})

\* The records whose turn is over and that were printed: the whole records
\* of selected channels before position pos, in file order.
PrintedBefore(pos) ==
  SelectSeq([i \in 1..(pos - 1) |-> i],
            LAMBDA i : /\ rfile[i].channel \in ropts.selected
                       /\ HeaderRead(rfile, i)
                       /\ ~PayloadReadFails(rfile[i]))

\* C15, the prefixes: in delta mode the first prefix printed has a blank
\* where the later ones have '+', and every prefix after the first shows
\* the record's timestamp minus that of the record printed before it.
C15_DeltaPrefixes ==
  ropts.print_timestamp = "kDelta" =>
    LET P == Prefixes(rp.out)
        F == PrintedBefore(rp.pos)
    IN /\ Len(P) = Len(F)
       /\ \A k \in 1..Len(P) :
            /\ P[k].sign = (IF k = 1 THEN " " ELSE "+")
            /\ k > 1 => PrefixNs(P[k]) = rfile[F[k]].timestamp_ns
                                          - rfile[F[k - 1]].timestamp_ns

\* C15, the reference point: a turn of the loop on a whole record changes
\* start_timestamp only when it prints a prefix.
C15_ReferenceMoves ==
  (ropts.print_timestamp = "kDelta" /\ rp.pc = "loop"
     /\ HeaderRead(rfile, rp.pos) /\ ~PayloadReadFails(rfile[rp.pos])
     /\ rp'.start_timestamp # rp.start_timestamp)
    => Len(Prefixes(rp'.out)) = Len(Prefixes(rp.out)) + 1

\* C15: in delta mode the first printed prefix has no '+' and the later
\* ones have it, each prefix after the first shows the time since the
\* record printed before it, and the reference point changes only when a
\* prefix is printed.
C15_Delta == []C15_DeltaPrefixes /\ [][C15_ReferenceMoves]_vars

\* The output is at a line boundary: nothing was emitted yet, or the last
\* byte emitted is a real newline.
AtLineStart(out) == out = <<>> \/ out[Len(out)] = [byte |-> NL]

\* C16: in a timestamp mode, colour off, every timestamp prefix is the
\* first thing in the output or comes right after a real newline, and
\* last_was_newline is true exactly when the output is at a line boundary.
C16_LineBoundary ==
  (ropts.print_timestamp # "kNone" /\ ~ropts.colored) =>
    /\ rp.last_was_newline <=> AtLineStart(rp.out)
    /\ \A i \in 1..Len(rp.out) :
         IsPrefix(rp.out[i]) => AtLineStart(SubSeq(rp.out, 1, i - 1))

\* C20: replay never puts more than sizeof(copy_buf) payload bytes into
\* copy_buf, and the index whose byte it compares with '\n' lies within the
\* payload it has just read, from 0 to block_size - 1.
C20_BufferSafety ==
  /\ rp.payload_read <= ReplayBufSize
  /\ \A r \in rp.nl_reads :
       /\ r.index \in 0..(r.block_size - 1)
       /\ r.index < rp.payload_read


(* ----------------------- properties of forwarding ---------------------- *)

\* The parent is in the pump loop and the read of some ready copier returns
\* bytes.
PumpHasData == pc = "pump" /\ \E c \in rd_fds : Len(src[c].buf) > 0

\* C17, one run of the pump loop: a copier whose read returned n > 0 bytes
\* forwards a prefix of them in order, its record in the log has block_size
\* n and all n bytes whatever was forwarded, and the copier stays open with
\* its forward destination open.
C17_PumpStep ==
  (pc = "pump" /\ pc' = "loop_cond") =>
    \A c \in rd_fds :
      LET n == Min(Len(src[c].buf), CopyBufSize)
          read == Take(src[c].buf, n)
          forwarded == SubSeq(fwd'[c], Len(fwd[c]) + 1, Len(fwd'[c]))
      IN n > 0 =>
           /\ ~closed'[c]
           /\ SubSeq(fwd'[c], 1, Len(fwd[c])) = fwd[c]
           /\ forwarded = Take(read, Len(forwarded))
           /\ \E k \in 1..Len(Appended) :
                /\ Appended[k].channel = c
                /\ Appended[k].block_size = n
                /\ Appended[k].payload = read
                /\ ~Appended[k].channel_closed
           /\ fwdCloses'[c] = fwdCloses[c]
           /\ pc' = "loop_cond"

\* C17: best-effort forwarding.  A pump whose read returned bytes comes to an
\* end whatever the forwarding writes do, and what it forwarded and logged
\* is as C17_PumpStep says.
C17_BestEffortForwarding ==
  /\ PumpHasData ~> (pc # "pump")
  /\ [][C17_PumpStep]_vars

(* ------------------------ properties of wake-ups ----------------------- *)

\* The time stamps of the log do not decrease in file order.
C18_LogTimes ==
  \A i, j \in 1..Len(log) :
    i < j => log[i].timestamp_ns <= log[j].timestamp_ns

\* One wake-up: the time stamp of the wake-up is taken when select()
\* returns and at no other step, records are written by the pump loop and
\* by the terminal write only, and one run of the pump loop writes one
\* record per ready copier, all with the time stamp of the wake-up, their
\* channels increasing, before the loop condition is evaluated again.
C18_WakeUpStep ==
  /\ timestamp' # timestamp => (pc = "select" /\ pc' = "pump")
  /\ (pc = "select" /\ pc' = "pump") => (log' = log /\ rd_fds' # {})
  /\ log' # log => (pc \in {"pump", "write_exit"} /\ pc' # pc)
  /\ (pc = "pump" /\ pc' # pc) =>
       /\ pc' = "loop_cond"
       /\ SubSeq(log', 1, Len(log)) = log
       /\ Len(Appended) = Cardinality(rd_fds)
       /\ \A k \in 1..Len(Appended) :
            /\ Appended[k].timestamp_ns = timestamp
            /\ Appended[k].channel \in rd_fds
            /\ \A m \in 1..Len(Appended) :
                 k < m => Appended[k].channel < Appended[m].channel
  /\ (pc = "write_exit" /\ pc' # pc) =>
       \A k \in 1..Len(Appended) :
         /\ Appended[k].channel = ExitChannel
         /\ Appended[k].timestamp_ns >= timestamp

\* C18: every wake-up takes one time stamp and pumps each ready copier once
\* in the order 0, 1, 2, so that the records of a wake-up share the time
\* stamp and come in increasing channel order, and the time stamps of the
\* whole log, the terminal record included, do not decrease.
C18_WakeUpOrdering == []C18_LogTimes /\ [][C18_WakeUpStep]_vars

\* A finished run under an advancing clock: two records of one time stamp
\* with increasing channels next to each other, and a terminal record with
\* a later time stamp than the first record.
C18_Witness ==
  /\ pc = "done"
  /\ limits.time > 0
  /\ Len(log) >= 3
  /\ log[Len(log)].channel = ExitChannel
  /\ log[Len(log)].timestamp_ns > log[1].timestamp_ns
  /\ \E i \in 1..(Len(log) - 2) :
       /\ log[i].timestamp_ns = log[i + 1].timestamp_ns
       /\ log[i].channel < log[i + 1].channel


(* ----------------------- properties of half-close ---------------------- *)

\* Copier c was pumped by this run of the pump loop and its read returned 0
\* or less.
ClosesNow(c) == c \in rd_fds /\ closed'[c]

\* C19, every step: a copier that is closed stays closed, nothing is written
\* to its forward destination and the destination is not closed again.
C19_AfterClose ==
  \A c \in Channels :
    closed[c] =>
      /\ closed'[c]
      /\ fwd'[c] = fwd[c]
      /\ fwdCloses'[c] = fwdCloses[c]
      /\ fwdCloses[c] = 1

\* C19, one run of the pump loop: a copier whose read returned 0 or less
\* closes its forward destination, once, and forwards nothing; a copier
\* that was not pumped keeps its flag, its source and its destination; a
\* copier pumped in the same run closes exactly when its own read took
\* nothing.
C19_PumpStep ==
  (pc = "pump" /\ pc' = "loop_cond") =>
    \A c \in Channels :
      /\ ClosesNow(c) =>
           /\ fwdCloses[c] = 0 /\ fwdCloses'[c] = 1
           /\ fwd'[c] = fwd[c]
      /\ c \notin rd_fds =>
           /\ closed'[c] = closed[c]
           /\ src'[c] = src[c]
           /\ fwd'[c] = fwd[c]
           /\ fwdCloses'[c] = fwdCloses[c]
      /\ (c \in rd_fds /\ ~closed'[c]) =>
           /\ Len(src'[c].buf) < Len(src[c].buf)
           /\ fwdCloses'[c] = fwdCloses[c]
           /\ \E k \in 1..Len(Appended) : Appended[k].channel = c

\* C19, the loop around it: while the child-exit notification has not been
\* seen and some copier is open the loop goes on, and select() then waits
\* on exactly the copiers that are open.
C19_StillServed ==
  /\ (pc = "loop_cond" /\ pc' # pc) =>
       (pc' = "fdset" <=> (~sigchild_called /\ \E c \in Channels : ~closed[c]))
  /\ (pc = "fdset" /\ pc' # pc) =>
       (pc' = "select" /\ rd_fds' = {c \in Channels : ~closed[c]})

\* C19: a read result of 0 or less closes the copier's forward destination
\* once and for good, leaves the other copiers as they are, and these are
\* waited on and pumped until they close or the child's exit is noticed.
C19_HalfClose ==
  [][C19_AfterClose /\ C19_PumpStep /\ C19_StillServed]_vars

\* Copier c has closed, and after that the parent waited again and pumped
\* and forwarded bytes of another copier.
C19_Witness ==
  \E c, d \in Channels :
    /\ c # d
    /\ closed[c] /\ fwdCloses[c] = 1
    /\ ~closed[d] /\ Len(fwd[d]) > 0
    /\ \E i, j \in 1..Len(log) :
         /\ i < j
         /\ log[i].channel = c /\ log[i].channel_closed
         /\ log[j].channel = d /\ log[j].block_size > 0

====
